---- MODULE Spec2Model ----
(***************************************************************************)
(* Model of the worksheet layout code of src/app.py: the inline-markup     *)
(* tokenizer and greedy line wrapper (draw_text_with_underline_wrapped)    *)
(* and the student worksheet renderer that drives it (create_pdf).         *)
(*                                                                         *)
(* A Python str is modelled as a sequence of one-character strings, so     *)
(* that slicing, startswith/endswith and the regular expressions are       *)
(* computed character by character as the code computes them.              *)
(***************************************************************************)
EXTENDS Integers, Sequences, FiniteSets, TLC

VARIABLES
    \* ---- frame of one call of draw_text_with_underline_wrapped ----
    text,         \* argument text
    max_width,    \* argument max_width
    line_height,  \* argument line_height
    y,            \* argument y
    glyph_w,      \* advance width of each character in the selected font
    pc,           \* position inside draw_text_with_underline_wrapped
    tokens,       \* local tokens
    i,            \* 1-based index of the next token of "for tok in tokens"
    line_buf,     \* local line_buf
    line_width,   \* local line_width
    cur_y,        \* local cur_y
    drawn,        \* the draw_line calls made so far: <<[toks, y], ...>>
    \* ---- frame of create_pdf ----
    cpc,          \* position inside create_pdf
    pdf_y,        \* create_pdf's cur_y
    idx,          \* number of questions already taken from the list
    page,         \* number of showPage calls made so far
    row,          \* the current question, as the pieces its Content is made of
    content,      \* local content after the two re.sub calls
    num_y,        \* y at which the current question number was drawn
    \* ---- frame of _draw_word_list_page, and the canvas ----
    given,        \* original_questions is not None
    src_k,        \* number of rows of source already read by line 584
    unique_words, \* local unique_words
    wi,           \* number of words already drawn
    wl_y,         \* _draw_word_list_page's cur_y
    col_x,        \* local col_x
    entries,      \* the word entries drawn so far: <<[n, x, y, page], ...>>
    saves,        \* number of c.save() calls made so far
    log,          \* what has been put into the document, in order
    \* ---- frame of one call of _draw_answer_line_wrapped ----
    ans_text,       \* argument text
    ans_pc,         \* position inside _draw_answer_line_wrapped
    ans_tokens,     \* local tokens
    ans_i,          \* 1-based index of the next token of "for tok in tokens"
    ans_line_buf,   \* local line_buf
    ans_line_width, \* local line_width
    ans_cur_y,      \* local cur_y
    ans_drawn,      \* the draw_line calls made so far
    \* ---- send_email_with_pdf and the send button of one student ----
    to_email,     \* argument to_email (parent_email of the student)
    cc_email,     \* argument cc_email (teacher_email of the student)
    has_secrets,  \* st.secrets has a "sendgrid" section
    mpc,          \* position inside the send handler and send_email_with_pdf
    recipient,    \* local recipient
    msg_cc,       \* the CC of the message built, NoCc when it has none
    sg_calls,     \* number of sg.send calls made so far
    result,       \* what send_email_with_pdf returned: [ok, msg]
    sent_status,  \* student_id in st.session_state.sent_status
    presses,      \* number of times the send button was pressed
    \* ---- the Review sheet and st.session_state ----
    sheet,             \* the rows of the Review worksheet
    review_df,         \* what load_review() returns (cached copy of sheet)
    final_pool,        \* st.session_state.final_pool
    ai_choices,        \* st.session_state.ai_choices
    confirmed_batches, \* st.session_state.confirmed_batches
    shuffled_cache,    \* st.session_state.shuffled_cache
    rendered,          \* the documents the current script run has rendered
    rerun              \* the level of the review page that st.rerun() reruns

wrapVars == <<text, max_width, line_height, y, glyph_w, pc, tokens, i,
              line_buf, line_width, cur_y, drawn>>
pdfVars  == <<cpc, pdf_y, idx, page, row, content, num_y>>
listVars == <<given, src_k, unique_words, wi, wl_y, col_x, entries, saves, log>>
ansVars  == <<ans_text, ans_pc, ans_tokens, ans_i, ans_line_buf,
              ans_line_width, ans_cur_y, ans_drawn>>
\* the frames that neither draw_text_with_underline_wrapped nor create_pdf
\* touches
mailVars == <<to_email, cc_email, has_secrets, mpc, recipient, msg_cc,
               sg_calls, result, sent_status, presses>>
appVars  == <<sheet, review_df, final_pool, ai_choices, confirmed_batches,
              shuffled_cache, rendered, rerun>>
restVars == <<ansVars, mailVars, appVars>>
vars     == <<text, max_width, line_height, y, glyph_w, pc, tokens, i,
              line_buf, line_width, cur_y, drawn,
              cpc, pdf_y, idx, page, row, content, num_y,
              given, src_k, unique_words, wi, wl_y, col_x, entries, saves,
              log,
              ans_text, ans_pc, ans_tokens, ans_i, ans_line_buf,
              ans_line_width, ans_cur_y, ans_drawn,
              to_email, cc_email, has_secrets, mpc, recipient, msg_cc,
              sg_calls, result, sent_status, presses,
              sheet, review_df, final_pool, ai_choices, confirmed_batches,
              shuffled_cache, rendered, rerun>>

----------------------------------------------------------------------------
(* Bounds of the model *)

MaxChunks == 4      \* a paragraph is made of at most this many chunks
MaxPlain  == 9      \* longest all-plain paragraph
MaxCharW  == 3      \* widest plain glyph in the abstract font
MaxWidth  == 4      \* largest max_width in the abstract font's units
MaxPieces == 2      \* a short question is made of at most this many pieces
MaxQuestions == 8   \* longest question list given to create_pdf
MaxEmailLen == 5    \* longest generated recipient address
MaxRows   == 2      \* longest Review sheet
MaxCache  == 1      \* most entries of shuffled_cache
MaxSends  == 2      \* the send button is pressed at most this many times
MaxWords  == 8      \* longest source list of the word page read row by row
LongList  == 46     \* length of the word list that needs a second page

----------------------------------------------------------------------------
(* Characters and strings *)

NL    == "\n"
LB    == "["                          \* stands for the bracket U+3010
RB    == "]"                          \* stands for the bracket U+3011
MARK  == <<LB, RB>>                   \* the proper-noun mark, U+3010 U+3011
OPEN  == <<"<", "u", ">">>            \* "<u>"
CLOSE == <<"<", "/", "u", ">">>       \* "</u>"

Min(S) == CHOOSE m \in S : \A n \in S : m <= n
Max2(a, b) == IF a >= b THEN a ELSE b

Rep(c, n) == [k \in 1..n |-> c]

RECURSIVE Concat(_)
Concat(ss) == IF ss = <<>> THEN <<>> ELSE Head(ss) \o Concat(Tail(ss))

\* s[k:k+len(p)] == p
IsAt(s, p, k) ==
    /\ k >= 1
    /\ k + Len(p) - 1 <= Len(s)
    /\ SubSeq(s, k, k + Len(p) - 1) = p

\* str.find(p, k): the first position >= k where p occurs, 0 when none
Find(s, p, k) ==
    LET hits == {j \in k..Len(s) : IsAt(s, p, j)}
    IN  IF hits = {} THEN 0 ELSE Min(hits)

StartsWith(s, p) == IsAt(s, p, 1)
EndsWith(s, p)   == IsAt(s, p, Len(s) - Len(p) + 1)

\* the regular expression "." (no DOTALL flag): any character but a newline
Dot(c) == c # NL

----------------------------------------------------------------------------
(* re.split(r'(<u>.*?</u>)', text) *)

\* Last position of the match of  open .*? close  that starts at st, or 0.
\* The lazy .*? stops at the first close after the opening tag and cannot
\* cross a newline.
MatchEnd(s, open, close, st) ==
    IF ~IsAt(s, open, st) THEN 0
    ELSE LET e == Find(s, close, st + Len(open))
         IN  IF e = 0 THEN 0
             ELSE IF \E j \in (st + Len(open))..(e - 1) : ~Dot(s[j]) THEN 0
             ELSE e + Len(close) - 1

\* Start of the leftmost match at or after position k, or 0.
Search(s, open, close, k) ==
    LET hits == {st \in k..Len(s) : MatchEnd(s, open, close, st) # 0}
    IN  IF hits = {} THEN 0 ELSE Min(hits)

\* The list re.split returns for the pattern (open.*?close) scanning from k:
\* [before, match, before, match, ..., rest], empty strings included.
RECURSIVE ReSplitFrom(_, _, _, _)
ReSplitFrom(s, open, close, k) ==
    LET st == Search(s, open, close, k)
    IN  IF st = 0 THEN << SubSeq(s, k, Len(s)) >>
        ELSE LET en == MatchEnd(s, open, close, st)
             IN  << SubSeq(s, k, st - 1), SubSeq(s, st, en) >>
                 \o ReSplitFrom(s, open, close, en + 1)

ReSplit(s, open, close) == ReSplitFrom(s, open, close, 1)

\* list(p): one single-character token per character
CharTokens(p) == [k \in 1..Len(p) |-> << p[k] >>]

\* line 385-386 appending the text between the tags instead of the part
PartTokens_StripsTags(p, open, close) ==
    IF p = <<>> THEN <<>>
    ELSE IF StartsWith(p, open) /\ EndsWith(p, close)
         THEN << SubSeq(p, Len(open) + 1, Len(p) - Len(close)) >>
    ELSE CharTokens(p)

\* The tokens one part contributes (body of "for p in parts").
PartTokens(p, open, close) ==
    IF p = <<>> THEN <<>>
    ELSE IF StartsWith(p, open) /\ EndsWith(p, close) THEN << p >>
    ELSE CharTokens(p)

RECURSIVE TokensOfParts(_, _, _)
TokensOfParts(parts, open, close) ==
    IF parts = <<>> THEN <<>>
    ELSE PartTokens(Head(parts), open, close)
         \o TokensOfParts(Tail(parts), open, close)

\* lines 380-388: the token list of a paragraph
Tokenize(s) == TokensOfParts(ReSplit(s, OPEN, CLOSE), OPEN, CLOSE)

----------------------------------------------------------------------------
(* Layout constants and page geometry *)

PAGE_WIDTH       == 612     \* reportlab.lib.pagesizes.letter[0]
PAGE_HEIGHT      == 792     \* reportlab.lib.pagesizes.letter[1]
PDF_LEFT_NUM     == 60
PDF_TEXT_START   == PDF_LEFT_NUM + 30
PDF_RIGHT_MARGIN == 40
PDF_LINE_HEIGHT  == 26
PDF_FONT_SIZE    == 18
TOP_MARGIN       == 60
BOTTOM_MARGIN    == 60
HEADER_STEP      == 30
COL_WIDTH        == 200

GetMaxWidth == PAGE_WIDTH - PDF_RIGHT_MARGIN - PDF_TEXT_START

TopY == PAGE_HEIGHT - TOP_MARGIN

----------------------------------------------------------------------------
(* measure and draw_line *)

\* pdfmetrics.stringWidth(s, font_name, font_size): the sum of the advance
\* widths of the characters of s
RECURSIVE StringWidth(_, _)
StringWidth(s, gw) ==
    IF s = <<>> THEN 0 ELSE gw[Head(s)] + StringWidth(Tail(s), gw)

\* tok[3:-4]
Inner(tok) == SubSeq(tok, Len(OPEN) + 1, Len(tok) - Len(CLOSE))

\* measure(tok)
Measure(tok, gw) ==
    IF StartsWith(tok, OPEN) THEN StringWidth(Inner(tok), gw)
    ELSE StringWidth(tok, gw)

\* what draw_line passes to c.drawString for one token
DrawnText(tp) ==
    IF StartsWith(tp, OPEN) /\ EndsWith(tp, CLOSE) THEN Inner(tp) ELSE tp

\* draw_line(line_buf, x, cur_y), recorded
DrawLine(ln, at) == Append(drawn, [toks |-> ln, y |-> at])

PARA_SPACING == 12

----------------------------------------------------------------------------
(* draw_text_with_underline_wrapped, one step per statement group *)

\* lines 380-388 and 408-409
TokenizeStep ==
    /\ pc = "tokenize"
    /\ tokens' = Tokenize(text)
    /\ cur_y' = y
    /\ line_buf' = <<>>
    /\ line_width' = 0
    /\ i' = 1
    /\ pc' = "loop"
    /\ UNCHANGED <<text, max_width, line_height, y, glyph_w, drawn>>

\* line 412 with the width of the token left out
Overflows_IgnoresToken(tok) ==
    line_width > max_width /\ line_buf # <<>>

\* line 412 without the test of line_buf
Overflows_NoBufferTest(tok) ==
    line_width + Measure(tok, glyph_w) > max_width

\* line 412 with >= for >
Overflows_AtLimit(tok) ==
    line_width + Measure(tok, glyph_w) >= max_width /\ line_buf # <<>>

\* the condition of line 412
Overflows(tok) ==
    line_width + Measure(tok, glyph_w) > max_width /\ line_buf # <<>>

\* lines 410-415: the token does not fit, the line is flushed
BreakLine ==
    /\ pc = "loop"
    /\ i <= Len(tokens)
    /\ Overflows(tokens[i])
    /\ drawn' = DrawLine(line_buf, cur_y)
    /\ cur_y' = cur_y - line_height
    /\ line_buf' = << tokens[i] >>
    /\ line_width' = Measure(tokens[i], glyph_w)
    /\ i' = i + 1
    /\ UNCHANGED <<text, max_width, line_height, y, glyph_w, pc, tokens>>

\* lines 410-412, 416-418: the token is appended to the current line
AppendToken ==
    /\ pc = "loop"
    /\ i <= Len(tokens)
    /\ ~Overflows(tokens[i])
    /\ line_buf' = Append(line_buf, tokens[i])
    /\ line_width' = line_width + Measure(tokens[i], glyph_w)
    /\ i' = i + 1
    /\ UNCHANGED <<text, max_width, line_height, y, glyph_w, pc, tokens,
                   cur_y, drawn>>

\* lines 419-421: the tokens still buffered are flushed as the last line
FlushLast ==
    /\ pc = "loop"
    /\ i > Len(tokens)
    /\ IF line_buf # <<>>
       THEN /\ drawn' = DrawLine(line_buf, cur_y)
            /\ cur_y' = cur_y - line_height
       ELSE UNCHANGED <<drawn, cur_y>>
    /\ pc' = "spacing"
    /\ UNCHANGED <<text, max_width, line_height, y, glyph_w, tokens, i,
                   line_buf, line_width>>

\* line 422 placed inside the "if line_buf" of line 419
ParagraphSpacing_OnlyAfterLines ==
    /\ pc = "spacing"
    /\ cur_y' = IF drawn = <<>> THEN cur_y ELSE cur_y - PARA_SPACING
    /\ pc' = "done"
    /\ UNCHANGED <<text, max_width, line_height, y, glyph_w, tokens, i,
                   line_buf, line_width, drawn>>

\* lines 422-423: paragraph spacing, then return cur_y
ParagraphSpacing ==
    /\ pc = "spacing"
    /\ cur_y' = cur_y - PARA_SPACING
    /\ pc' = "done"
    /\ UNCHANGED <<text, max_width, line_height, y, glyph_w, tokens, i,
                   line_buf, line_width, drawn>>

----------------------------------------------------------------------------
(* Paragraphs and fonts the wrapper is run on *)

Chunks == { OPEN, CLOSE, <<"a">>, <<NL>> }

RECURSIVE ChunkTexts(_)
ChunkTexts(n) ==
    IF n = 0 THEN { <<>> }
    ELSE LET shorter == ChunkTexts(n - 1)
         IN  shorter \cup { t \o c : t \in shorter, c \in Chunks }

\* "abab...": plain characters only
PlainText(n) == [k \in 1..n |-> IF k % 2 = 1 THEN "a" ELSE "b"]

Texts == ChunkTexts(MaxChunks) \cup { PlainText(n) : n \in 0..MaxPlain }

Chars == {"<", "u", ">", "/", "a", "b", NL, " ", LB, RB, "n", "w",
          "r", "e", "d"}
PlainChars == {"a", "b"}

\* plain glyphs share one width; the characters of the markers and the
\* newline have width 1
Fonts == { [c \in Chars |-> IF c \in PlainChars THEN w ELSE 1] :
             w \in 0..MaxCharW }

\* the worksheet font at PDF_FONT_SIZE: the characters of the sentences are
\* full-width glyphs, the space and the ASCII characters half-width ones
PdfFont ==
    [c \in Chars |-> IF c \in {"a", "b", "n", "w", LB, RB}
                     THEN PDF_FONT_SIZE ELSE PDF_FONT_SIZE \div 2]

LINE_HEIGHT_DEFAULT == 18

\* the y of the first question of the first page and of a later page
StartYs == { TopY - 2 * HEADER_STEP, TopY }

\* the arguments of a call of the wrapper, and its frame on entry
WrapperCalled ==
    /\ text \in Texts
    /\ max_width \in 0..MaxWidth
    /\ line_height \in {LINE_HEIGHT_DEFAULT, PDF_LINE_HEIGHT}
    /\ y \in StartYs
    /\ glyph_w \in Fonts
    /\ pc = "tokenize"
    /\ tokens = <<>>
    /\ i = 1
    /\ line_buf = <<>>
    /\ line_width = 0
    /\ cur_y = y
    /\ drawn = <<>>

\* create_pdf is not running
PdfIdle ==
    /\ cpc = "none"
    /\ pdf_y = 0
    /\ idx = 0
    /\ page = 0
    /\ row = <<>>
    /\ content = <<>>
    /\ num_y = 0
    /\ given = FALSE
    /\ src_k = 0
    /\ unique_words = <<>>
    /\ wi = 0
    /\ wl_y = 0
    /\ col_x = 0
    /\ entries = <<>>
    /\ saves = 0
    /\ log = <<>>

\* _draw_answer_line_wrapped is not running
AnswerIdle ==
    /\ ans_text = <<>>
    /\ ans_pc = "idle"
    /\ ans_tokens = <<>>
    /\ ans_i = 1
    /\ ans_line_buf = <<>>
    /\ ans_line_width = 0
    /\ ans_cur_y = 0
    /\ ans_drawn = <<>>

\* no student is being sent to
MailIdle ==
    /\ to_email = <<>>
    /\ cc_email = <<>>
    /\ has_secrets = FALSE
    /\ mpc = "none"
    /\ recipient = <<>>
    /\ msg_cc = <<>>
    /\ sg_calls = 0
    /\ result = [ok |-> FALSE, msg |-> "none"]
    /\ sent_status = FALSE
    /\ presses = 0

\* the app has not been opened
AppIdle ==
    /\ sheet = <<>>
    /\ review_df = <<>>
    /\ final_pool = <<>>
    /\ ai_choices = <<>>
    /\ confirmed_batches = {}
    /\ shuffled_cache = <<>>
    /\ rendered = <<>>
    /\ rerun = <<>>

RestIdle == AnswerIdle /\ MailIdle /\ AppIdle

Init == WrapperCalled /\ PdfIdle /\ RestIdle

Next ==
    \/ TokenizeStep /\ UNCHANGED <<pdfVars, listVars, restVars>>
    \/ BreakLine /\ UNCHANGED <<pdfVars, listVars, restVars>>
    \/ AppendToken /\ UNCHANGED <<pdfVars, listVars, restVars>>
    \/ FlushLast /\ UNCHANGED <<pdfVars, listVars, restVars>>
    \/ ParagraphSpacing /\ UNCHANGED <<pdfVars, listVars, restVars>>

Spec == Init /\ [][Next]_vars

----------------------------------------------------------------------------
(* _draw_answer_line_wrapped, one step per statement group *)

RED_OPEN  == <<"<", "r", "e", "d", ">">>
RED_CLOSE == <<"<", "/", "r", "e", "d", ">">>

\* lines 432-440: the token list of an answer line
AnswerTokenize(s) ==
    TokensOfParts(ReSplit(s, RED_OPEN, RED_CLOSE), RED_OPEN, RED_CLOSE)

\* tok[5:-6]
AnswerInner(tok) ==
    SubSeq(tok, Len(RED_OPEN) + 1, Len(tok) - Len(RED_CLOSE))

\* measure(tok), lines 442-444
AnswerMeasure(tok, gw) ==
    IF StartsWith(tok, RED_OPEN) THEN StringWidth(AnswerInner(tok), gw)
    ELSE StringWidth(tok, gw)

\* draw_line(line_buf, x, cur_y), recorded
AnswerDrawLine(ln, at) == Append(ans_drawn, [toks |-> ln, y |-> at])

\* lines 432-440 and 460-461
AnswerTokenizeStep ==
    /\ ans_pc = "tokenize"
    /\ ans_tokens' = AnswerTokenize(ans_text)
    /\ ans_cur_y' = y
    /\ ans_line_buf' = <<>>
    /\ ans_line_width' = 0
    /\ ans_i' = 1
    /\ ans_pc' = "loop"
    /\ UNCHANGED <<ans_text, ans_drawn>>

\* line 464 with >= for >
AnswerOverflows_AtLimit(tok) ==
    /\ ans_line_width + AnswerMeasure(tok, glyph_w) >= max_width
    /\ ans_line_buf # <<>>

\* the condition of line 464
AnswerOverflows(tok) ==
    /\ ans_line_width + AnswerMeasure(tok, glyph_w) > max_width
    /\ ans_line_buf # <<>>

\* lines 462-467: the token does not fit, the line is flushed
AnswerBreakLine ==
    /\ ans_pc = "loop"
    /\ ans_i <= Len(ans_tokens)
    /\ AnswerOverflows(ans_tokens[ans_i])
    /\ ans_drawn' = AnswerDrawLine(ans_line_buf, ans_cur_y)
    /\ ans_cur_y' = ans_cur_y - line_height
    /\ ans_line_buf' = << ans_tokens[ans_i] >>
    /\ ans_line_width' = AnswerMeasure(ans_tokens[ans_i], glyph_w)
    /\ ans_i' = ans_i + 1
    /\ UNCHANGED <<ans_text, ans_pc, ans_tokens>>

\* lines 462-464, 468-470: the token is appended to the current line
AnswerAppendToken ==
    /\ ans_pc = "loop"
    /\ ans_i <= Len(ans_tokens)
    /\ ~AnswerOverflows(ans_tokens[ans_i])
    /\ ans_line_buf' = Append(ans_line_buf, ans_tokens[ans_i])
    /\ ans_line_width' =
           ans_line_width + AnswerMeasure(ans_tokens[ans_i], glyph_w)
    /\ ans_i' = ans_i + 1
    /\ UNCHANGED <<ans_text, ans_pc, ans_tokens, ans_cur_y, ans_drawn>>

\* lines 471-473: the tokens still buffered are flushed as the last line
AnswerFlushLast ==
    /\ ans_pc = "loop"
    /\ ans_i > Len(ans_tokens)
    /\ IF ans_line_buf # <<>>
       THEN /\ ans_drawn' = AnswerDrawLine(ans_line_buf, ans_cur_y)
            /\ ans_cur_y' = ans_cur_y - line_height
       ELSE UNCHANGED <<ans_drawn, ans_cur_y>>
    /\ ans_pc' = "spacing"
    /\ UNCHANGED <<ans_text, ans_tokens, ans_i, ans_line_buf, ans_line_width>>

\* lines 474-475: paragraph spacing, then return cur_y
AnswerParagraphSpacing ==
    /\ ans_pc = "spacing"
    /\ ans_cur_y' = ans_cur_y - PARA_SPACING
    /\ ans_pc' = "done"
    /\ UNCHANGED <<ans_text, ans_tokens, ans_i, ans_line_buf, ans_line_width,
                   ans_drawn>>

\* the paragraph s with every <u> tag written as a <red> tag
RECURSIVE ToRedFrom(_, _)
ToRedFrom(s, k) ==
    IF k > Len(s) THEN <<>>
    ELSE IF IsAt(s, OPEN, k) THEN RED_OPEN \o ToRedFrom(s, k + Len(OPEN))
    ELSE IF IsAt(s, CLOSE, k) THEN RED_CLOSE \o ToRedFrom(s, k + Len(CLOSE))
    ELSE << s[k] >> \o ToRedFrom(s, k + 1)

ToRed(s) == ToRedFrom(s, 1)

\* both wrappers are called with the same x, y, font, max_width and
\* line_height, on a paragraph and on the same paragraph marked in red
InitAnswer ==
    /\ WrapperCalled
    /\ PdfIdle
    /\ ans_text = ToRed(text)
    /\ ans_pc = "tokenize"
    /\ ans_tokens = <<>>
    /\ ans_i = 1
    /\ ans_line_buf = <<>>
    /\ ans_line_width = 0
    /\ ans_cur_y = y
    /\ ans_drawn = <<>>
    /\ MailIdle
    /\ AppIdle

answerFrame == <<wrapVars, pdfVars, listVars, mailVars, appVars>>

\* the two calls are made one after the other
NextAnswer ==
    \/ TokenizeStep /\ UNCHANGED <<pdfVars, listVars, restVars>>
    \/ BreakLine /\ UNCHANGED <<pdfVars, listVars, restVars>>
    \/ AppendToken /\ UNCHANGED <<pdfVars, listVars, restVars>>
    \/ FlushLast /\ UNCHANGED <<pdfVars, listVars, restVars>>
    \/ ParagraphSpacing /\ UNCHANGED <<pdfVars, listVars, restVars>>
    \/ pc = "done" /\ AnswerTokenizeStep /\ UNCHANGED answerFrame
    \/ AnswerBreakLine /\ UNCHANGED answerFrame
    \/ AnswerAppendToken /\ UNCHANGED answerFrame
    \/ AnswerFlushLast /\ UNCHANGED answerFrame
    \/ AnswerParagraphSpacing /\ UNCHANGED answerFrame

SpecAnswer == InitAnswer /\ [][NextAnswer]_vars

----------------------------------------------------------------------------
(* create_pdf: the two substitutions of lines 568-569 *)

\* re.sub(r'【】(.*?)【】', r'<u>\1</u>', s): every second
\* element of the split is a match, MARK inner MARK
RECURSIVE SubNounParts(_)
SubNounParts(parts) ==
    IF Len(parts) < 2 THEN Concat(parts)
    ELSE LET m == parts[2]
         IN  parts[1]
             \o OPEN \o SubSeq(m, Len(MARK) + 1, Len(m) - Len(MARK)) \o CLOSE
             \o SubNounParts(SubSeq(parts, 3, Len(parts)))

ReSubNoun(s) == SubNounParts(ReSplit(s, MARK, MARK))

\* line 563 without the minimum of 4
ReplaceBlank_NoMinimum(word) == OPEN \o Rep(" ", Len(word) * 2) \o CLOSE

\* replace_blank(match), lines 561-564
ReplaceBlank(word) == OPEN \o Rep(" ", Max2(Len(word) * 2, 4)) \o CLOSE

\* Position of the closing bracket of the match of  LB ([^RB]+) RB  that
\* starts at st, or 0: the word is everything up to the first RB and must
\* not be empty.
BlankMatchEnd(s, st) ==
    IF st > Len(s) \/ s[st] # LB THEN 0
    ELSE LET e == Find(s, <<RB>>, st + 1)
         IN  IF e = 0 \/ e = st + 1 THEN 0 ELSE e

\* re.sub(r'【([^】]+)】', replace_blank, s), scanning from k
RECURSIVE ReSubBlankFrom(_, _)
ReSubBlankFrom(s, k) ==
    LET hits == {st \in k..Len(s) : BlankMatchEnd(s, st) # 0}
    IN  IF hits = {} THEN SubSeq(s, k, Len(s))
        ELSE LET st == Min(hits)
                 en == BlankMatchEnd(s, st)
             IN  SubSeq(s, k, st - 1)
                 \o ReplaceBlank(SubSeq(s, st + 1, en - 1))
                 \o ReSubBlankFrom(s, en + 1)

ReSubBlank(s) == ReSubBlankFrom(s, 1)

\* lines 567-569
StudentContent(raw) == ReSubBlank(ReSubNoun(raw))

----------------------------------------------------------------------------
(* create_pdf: the questions given to it *)

\* A sentence is written as pieces: plain characters, a proper noun between
\* two marks, or the target word between brackets.
PlainPiece(str) == [kind |-> "plain", s |-> str]
NounPiece(str)  == [kind |-> "noun",  s |-> str]
BlankPiece(str) == [kind |-> "blank", s |-> str]

PieceText(p) ==
    CASE p.kind = "plain" -> p.s
      [] p.kind = "noun"  -> MARK \o p.s \o MARK
      [] p.kind = "blank" -> <<LB>> \o p.s \o <<RB>>

\* row['Content']
RawContent(r) == Concat([k \in 1..Len(r) |-> PieceText(r[k])])

Pieces ==
    { PlainPiece(<<"a">>), NounPiece(<<>>), NounPiece(<<"n">>),
      NounPiece(<<"n", "n">>),
      BlankPiece(<<"w">>), BlankPiece(<<"w", "w">>),
      BlankPiece(<<"w", "w", "w">>) }

RECURSIVE PieceSeqs(_)
PieceSeqs(n) ==
    IF n = 0 THEN { <<>> }
    ELSE LET shorter == PieceSeqs(n - 1)
         IN  shorter \cup { Append(r, p) : r \in shorter, p \in Pieces }

\* a sentence of 62 characters around a two-character target word: it
\* needs three lines of the page
LongRow ==
    << PlainPiece(PlainText(30)), BlankPiece(<<"w", "w">>),
       PlainPiece(PlainText(30)) >>

\* Content is non-empty
\* a sentence of 30 characters without a target word: two lines
MidRow == << PlainPiece(PlainText(30)) >>

Rows == (PieceSeqs(MaxPieces) \ { <<>> }) \cup { LongRow, MidRow }

\* str(row.get('Word', '')).strip()
IsSpace(c) == c \in {" ", NL}

RECURSIVE LStrip(_)
LStrip(s) == IF s # <<>> /\ IsSpace(Head(s)) THEN LStrip(Tail(s)) ELSE s

RECURSIVE RStrip(_)
RStrip(s) ==
    IF s # <<>> /\ IsSpace(s[Len(s)]) THEN RStrip(SubSeq(s, 1, Len(s) - 1))
    ELSE s

Strip(s) == RStrip(LStrip(s))

\* list(dict.fromkeys([w for w in words if w]))
RECURSIVE Dedupe(_)
Dedupe(ws) ==
    IF ws = <<>> THEN <<>>
    ELSE << Head(ws) >>
         \o Dedupe(SelectSeq(Tail(ws), LAMBDA w : w # Head(ws)))

UniqueWords(words) == Dedupe(SelectSeq(words, LAMBDA w : w # <<>>))

\* the k-th word of a word list without repetitions
Word(k) == Rep("w", k)

\* the Word cell of row k of the source list: missing, the row's own word,
\* that word with a trailing space, or the word of row 1 again
WordCells(k) == { <<>>, Word(k), Word(k) \o <<" ">>, Word(1) }

\* the words of a list of LongList rows, stripped
LongWords == [k \in 1..LongList |-> Strip(Word(k) \o <<" ">>)]

\* one entry of the log
Event(kind, num) == [ev |-> kind, n |-> num]

----------------------------------------------------------------------------
(* create_pdf, one step per statement group *)

wrapConst == <<max_width, line_height, glyph_w>>

\* lines 547, 550-554
DrawTitle ==
    /\ cpc = "title"
    /\ pdf_y' = pdf_y - HEADER_STEP
    /\ cpc' = "date"
    /\ log' = Append(log, Event("title", 0))
    /\ UNCHANGED <<idx, page, row, content, num_y>>
    /\ UNCHANGED <<given, src_k, unique_words, wi, wl_y, col_x, entries, saves>>
    /\ UNCHANGED wrapVars

\* lines 557-559
DrawDate ==
    /\ cpc = "date"
    /\ pdf_y' = pdf_y - HEADER_STEP
    /\ cpc' = "loop"
    /\ log' = Append(log, Event("date", 0))
    /\ UNCHANGED <<idx, page, row, content, num_y>>
    /\ UNCHANGED <<given, src_k, unique_words, wi, wl_y, col_x, entries, saves>>
    /\ UNCHANGED wrapVars

\* lines 566-569: the next row of questions, its content substituted
NextQuestion ==
    /\ cpc = "loop"
    /\ idx < MaxQuestions
    /\ \E r \in Rows :
         /\ row' = r
         /\ content' = StudentContent(RawContent(r))
    /\ idx' = idx + 1
    /\ cpc' = "fit"
    /\ UNCHANGED <<pdf_y, page, num_y>>
    /\ UNCHANGED <<wrapVars, listVars>>

\* the condition of line 571 without the height of the line to come
NeedsPage_NoLineHeight(at) == at < BOTTOM_MARGIN

\* the condition of line 571
NeedsPage(at) == at - PDF_LINE_HEIGHT < BOTTOM_MARGIN

\* lines 571-573
QuestionPageBreak ==
    /\ cpc = "fit"
    /\ NeedsPage(pdf_y)
    /\ page' = page + 1
    /\ pdf_y' = TopY
    /\ cpc' = "number"
    /\ UNCHANGED <<idx, row, content, num_y>>
    /\ UNCHANGED <<wrapVars, listVars>>

\* line 571, condition false
QuestionFits ==
    /\ cpc = "fit"
    /\ ~NeedsPage(pdf_y)
    /\ cpc' = "number"
    /\ UNCHANGED <<pdf_y, idx, page, row, content, num_y>>
    /\ UNCHANGED <<wrapVars, listVars>>

\* lines 575-581: the number is drawn, draw_text_with_underline_wrapped is
\* entered
DrawNumber ==
    /\ cpc = "number"
    /\ num_y' = pdf_y
    /\ cpc' = "content"
    /\ text' = content
    /\ y' = pdf_y
    /\ pc' = "tokenize"
    /\ tokens' = <<>>
    /\ i' = 1
    /\ line_buf' = <<>>
    /\ line_width' = 0
    /\ cur_y' = pdf_y
    /\ drawn' = <<>>
    /\ log' = Append(log, Event("number", idx))
    /\ UNCHANGED <<pdf_y, idx, page, row, content>>
    /\ UNCHANGED <<given, src_k, unique_words, wi, wl_y, col_x, entries, saves>>
    /\ UNCHANGED wrapConst

\* line 577: cur_y = the value draw_text_with_underline_wrapped returns.
\* The frame of the call is gone, and row and content are not read again
\* before line 566 assigns them anew.
ContentReturn ==
    /\ cpc = "content"
    /\ pc = "done"
    /\ pdf_y' = cur_y
    /\ cpc' = "loop"
    /\ pc' = "idle"
    /\ text' = <<>>
    /\ y' = 0
    /\ tokens' = <<>>
    /\ i' = 1
    /\ line_buf' = <<>>
    /\ line_width' = 0
    /\ cur_y' = 0
    /\ drawn' = <<>>
    /\ row' = <<>>
    /\ content' = <<>>
    /\ log' = Append(log, Event("content", idx))
    /\ UNCHANGED <<idx, page, num_y>>
    /\ UNCHANGED <<given, src_k, unique_words, wi, wl_y, col_x, entries, saves>>
    /\ UNCHANGED wrapConst

\* line 583: the list of questions is exhausted and the source of the
\* words is chosen
EndQuestions ==
    /\ cpc = "loop"
    /\ cpc' = "collect"
    /\ \/ /\ given' \in BOOLEAN
          /\ src_k' = 0
          /\ unique_words' = <<>>
       \/ /\ given' = TRUE
          /\ src_k' = LongList
          /\ unique_words' = UniqueWords(LongWords)
    /\ UNCHANGED <<pdf_y, idx, page, row, content, num_y>>
    /\ UNCHANGED <<wi, wl_y, col_x, entries, saves, log>>
    /\ UNCHANGED wrapVars

\* the length of source: that of questions unless original_questions is
\* given
SourceExhausted == IF given THEN TRUE ELSE src_k = idx
SourceHasRow    == IF given THEN src_k < MaxWords ELSE src_k < idx

\* lines 584 and 485: the Word cell of the next row of source is stripped,
\* and kept if it is not empty and not yet in the list
CollectWord ==
    /\ cpc = "collect"
    /\ SourceHasRow
    /\ \E cell \in WordCells(src_k + 1) :
         unique_words' = UniqueWords(Append(unique_words, Strip(cell)))
    /\ src_k' = src_k + 1
    /\ UNCHANGED <<cpc, pdf_y, idx, page, row, content, num_y>>
    /\ UNCHANGED <<given, wi, wl_y, col_x, entries, saves, log>>
    /\ UNCHANGED wrapVars

\* the two columns, lines 492-494
X1 == PDF_LEFT_NUM
X2 == PDF_LEFT_NUM + COL_WIDTH + 20

\* lines 486-499: _draw_word_list_page returns at once when there is no
\* word, else it starts a page and draws the title of the list
EnterWordList ==
    /\ cpc = "collect"
    /\ SourceExhausted
    /\ IF unique_words = <<>>
       THEN /\ cpc' = "save"
            /\ UNCHANGED <<page, wl_y, col_x, log>>
       ELSE /\ cpc' = "words"
            /\ page' = page + 1
            /\ wl_y' = TopY - HEADER_STEP
            /\ col_x' = X1
            /\ log' = Append(log, Event("wordpage", 0))
    /\ wi' = 0
    /\ UNCHANGED <<pdf_y, idx, row, content, num_y>>
    /\ UNCHANGED <<given, src_k, unique_words, entries, saves>>
    /\ UNCHANGED wrapVars

\* line 518 with the test on i instead of i + 1
AdvancesRow_OddEntries(n) == (n - 1) % 2 = 0

\* line 518: the entry numbered n = i + 1 ends its row
AdvancesRow(n) == n % 2 = 0

\* lines 501-522: one word of the list
DrawWord ==
    /\ cpc = "words"
    /\ wi < Len(unique_words)
    /\ LET brk == wl_y < BOTTOM_MARGIN
           at  == IF brk THEN TopY - HEADER_STEP ELSE wl_y
           pg  == IF brk THEN page + 1 ELSE page
       IN  /\ page' = pg
           /\ entries' = Append(entries,
                                [n |-> wi + 1, x |-> col_x, y |-> at, page |-> pg])
           /\ IF AdvancesRow(wi + 1)
              THEN /\ wl_y' = at - HEADER_STEP
                   /\ col_x' = X1
              ELSE /\ wl_y' = at
                   /\ col_x' = X2
    /\ wi' = wi + 1
    /\ log' = Append(log, Event("word", wi + 1))
    /\ UNCHANGED <<cpc, pdf_y, idx, row, content, num_y>>
    /\ UNCHANGED <<given, src_k, unique_words, saves>>
    /\ UNCHANGED wrapVars

\* the loop of line 501 is over
WordListReturn ==
    /\ cpc = "words"
    /\ wi = Len(unique_words)
    /\ cpc' = "save"
    /\ UNCHANGED <<pdf_y, idx, page, row, content, num_y>>
    /\ UNCHANGED <<wrapVars, listVars>>

\* lines 587-589, followed by a return into the loop of line 566
Save_ThenGoesOn ==
    /\ cpc = "save"
    /\ saves' = saves + 1
    /\ cpc' = "loop"
    /\ log' = Append(log, Event("save", 0))
    /\ UNCHANGED <<pdf_y, idx, page, row, content, num_y>>
    /\ UNCHANGED <<given, src_k, unique_words, wi, wl_y, col_x, entries>>
    /\ UNCHANGED wrapVars

\* lines 587-589
Save ==
    /\ cpc = "save"
    /\ saves' = saves + 1
    /\ cpc' = "saved"
    /\ log' = Append(log, Event("save", 0))
    /\ UNCHANGED <<pdf_y, idx, page, row, content, num_y>>
    /\ UNCHANGED <<given, src_k, unique_words, wi, wl_y, col_x, entries>>
    /\ UNCHANGED wrapVars

\* lines 542-547: a new document
InitPdf ==
    /\ text = <<>>
    /\ max_width = GetMaxWidth
    /\ line_height = PDF_LINE_HEIGHT
    /\ y = 0
    /\ glyph_w = PdfFont
    /\ pc = "idle"
    /\ tokens = <<>>
    /\ i = 1
    /\ line_buf = <<>>
    /\ line_width = 0
    /\ cur_y = 0
    /\ drawn = <<>>
    /\ cpc = "title"
    /\ pdf_y = TopY
    /\ idx = 0
    /\ page = 0
    /\ row = <<>>
    /\ content = <<>>
    /\ num_y = TopY
    /\ given = FALSE
    /\ src_k = 0
    /\ unique_words = <<>>
    /\ wi = 0
    /\ wl_y = 0
    /\ col_x = 0
    /\ entries = <<>>
    /\ saves = 0
    /\ log = <<>>
    /\ RestIdle

NextPdf ==
    \/ DrawTitle /\ UNCHANGED restVars
    \/ DrawDate /\ UNCHANGED restVars
    \/ NextQuestion /\ UNCHANGED restVars
    \/ QuestionPageBreak /\ UNCHANGED restVars
    \/ QuestionFits /\ UNCHANGED restVars
    \/ DrawNumber /\ UNCHANGED restVars
    \/ TokenizeStep /\ UNCHANGED <<pdfVars, listVars>> /\ UNCHANGED restVars
    \/ BreakLine /\ UNCHANGED <<pdfVars, listVars>> /\ UNCHANGED restVars
    \/ AppendToken /\ UNCHANGED <<pdfVars, listVars>> /\ UNCHANGED restVars
    \/ FlushLast /\ UNCHANGED <<pdfVars, listVars>> /\ UNCHANGED restVars
    \/ ParagraphSpacing /\ UNCHANGED <<pdfVars, listVars>> /\ UNCHANGED restVars
    \/ ContentReturn /\ UNCHANGED restVars
    \/ EndQuestions /\ UNCHANGED restVars
    \/ CollectWord /\ UNCHANGED restVars
    \/ EnterWordList /\ UNCHANGED restVars
    \/ DrawWord /\ UNCHANGED restVars
    \/ WordListReturn /\ UNCHANGED restVars
    \/ Save /\ UNCHANGED restVars

SpecPdf == InitPdf /\ [][NextPdf]_vars

----------------------------------------------------------------------------
(* send_email_with_pdf and the send button of mode B *)

\* Python objects that are not str: None and the float nan of an empty cell
NONE == << "None-object" >>
NAN  == << "nan-object" >>

\* bool(v) of "if cc_email"
Truthy(v) == v # NONE /\ v # <<>>

\* str(v)
Str(v) ==
    CASE v = NONE -> <<"N", "o", "n", "e">>
      [] v = NAN  -> <<"n", "a", "n">>
      [] OTHER    -> v

\* str.lower(), character by character
LowerChar(c) ==
    CASE c = "A" -> "a"
      [] c = "B" -> "b"
      [] c = "N" -> "n"
      [] OTHER   -> c

LowerStr(v) == [k \in 1..Len(v) |-> LowerChar(v[k])]

\* \w and [\w\.-] of the pattern of line 737
WordChar(c) ==
    c \in {"a", "b", "e", "i", "l", "m", "n", "o", "t", "A", "B", "N", "_"}
LocalChar(c) == WordChar(c) \/ c \in {".", "-"}

\* line 737 without the part of the pattern after the @
EmailMatch_LocalPartOnly(r) ==
    \E at \in 2..Len(r) :
        /\ r[at] = "@"
        /\ \A j \in 1..(at - 1) : LocalChar(r[j])

\* re.match(r'^[\w\.-]+@[\w\.-]+\.\w+$', r): some @ and some later dot
\* split r into a local part, a domain and a last label.  r is stripped, so
\* the $ can only match at its end.
EmailMatch(r) ==
    \E at \in 2..Len(r) :
        /\ r[at] = "@"
        /\ \A j \in 1..(at - 1) : LocalChar(r[j])
        /\ \E dot \in (at + 2)..(Len(r) - 1) :
              /\ r[dot] = "."
              /\ \A j \in (at + 1)..(dot - 1) : LocalChar(r[j])
              /\ \A j \in (dot + 1)..Len(r) : WordChar(r[j])

\* the message has no CC
NoCc == << "no-cc" >>

Placeholders == { <<"n", "/", "a">>, <<"n", "a", "n">>, <<>>, <<"n", "o", "n", "e">> }

Contains(v, c) == \E k \in 1..Len(v) : v[k] = c

\* lines 755-758 comparing with recipient instead of recipient.lower()
CcOf_CaseSensitive(cc, rcpt) ==
    IF Truthy(cc)
    THEN LET cc_clean == LowerStr(Strip(Str(cc)))
         IN  IF /\ cc_clean \notin Placeholders
                /\ Contains(cc_clean, "@")
                /\ cc_clean # rcpt
             THEN cc_clean ELSE NoCc
    ELSE NoCc

\* lines 755-758: the CC of the message
CcOf(cc, rcpt) ==
    IF Truthy(cc)
    THEN LET cc_clean == LowerStr(Strip(Str(cc)))
         IN  IF /\ cc_clean \notin Placeholders
                /\ Contains(cc_clean, "@")
                /\ cc_clean # LowerStr(rcpt)
             THEN cc_clean ELSE NoCc
    ELSE NoCc

\* what send_email_with_pdf returns
Returns(success, message) == [ok |-> success, msg |-> message]

mailLocals == <<to_email, cc_email, has_secrets, sent_status>>

\* lines 1214-1224: the send button is pressed, send_email_with_pdf entered
PressSend ==
    /\ mpc = "idle"
    /\ presses < MaxSends
    /\ presses' = presses + 1
    /\ mpc' = "config"
    /\ recipient' = <<>>
    /\ msg_cc' = NoCc
    /\ result' = Returns(FALSE, "none")
    /\ UNCHANGED <<mailLocals, sg_calls>>

\* line 735: st.secrets["sendgrid"]; a missing section raises, and line 774
\* returns the text of the exception
LoadConfig ==
    /\ mpc = "config"
    /\ IF has_secrets
       THEN mpc' = "validate" /\ UNCHANGED result
       ELSE mpc' = "returned" /\ result' = Returns(FALSE, "exception")
    /\ UNCHANGED <<mailLocals, recipient, msg_cc, sg_calls, presses>>

\* lines 736-738
ValidateRecipient ==
    /\ mpc = "validate"
    /\ recipient' = Strip(Str(to_email))
    /\ IF ~EmailMatch(recipient')
       THEN mpc' = "returned" /\ result' = Returns(FALSE, "invalid format")
       ELSE mpc' = "message" /\ UNCHANGED result
    /\ UNCHANGED <<mailLocals, msg_cc, sg_calls, presses>>

\* lines 740-758: the message is built and the CC rule applied
BuildMessage ==
    /\ mpc = "message"
    /\ msg_cc' = CcOf(cc_email, recipient)
    /\ mpc' = "send"
    /\ UNCHANGED <<mailLocals, recipient, sg_calls, result, presses>>

\* what the provider does with a message: a 2xx response, another status,
\* an HTTPError or another exception
Outcomes == {"2xx", "status", "http error", "exception"}

\* lines 760-775
SendMessage ==
    /\ mpc = "send"
    /\ sg_calls' = sg_calls + 1
    /\ \E o \in Outcomes :
         result' = IF o = "2xx" THEN Returns(TRUE, "sent")
                   ELSE Returns(FALSE, o)
    /\ mpc' = "returned"
    /\ UNCHANGED <<mailLocals, recipient, msg_cc, presses>>

\* lines 1225-1231
HandleResult ==
    /\ mpc = "returned"
    /\ sent_status' = (IF result.ok THEN TRUE ELSE sent_status)
    /\ mpc' = "idle"
    /\ UNCHANGED <<to_email, cc_email, has_secrets, recipient, msg_cc,
                   sg_calls, result, presses>>

\* the addresses of the student's row
RECURSIVE CharStrings(_, _)
CharStrings(alphabet, n) ==
    IF n = 0 THEN { <<>> }
    ELSE LET shorter == CharStrings(alphabet, n - 1)
         IN  shorter \cup { Append(t, c) : t \in shorter, c \in alphabet }

ToEmails ==
    CharStrings({"a", "@", "."}, MaxEmailLen)
    \cup { <<"A", "@", "a", ".", "a">>,
           <<" ", "a", "@", "a", ".", "a", " ">>,
           <<"a", "-", "a", "@", "a", "_", "a", ".", "a", "a">>,
           <<"n", "o", "t", "-", "a", "n", "-", "e", "m", "a", "i", "l">>,
           <<"a", "@", "a", ".", "a", "-">> }

CcEmails ==
    { NONE, NAN,
      <<>>,
      <<" ">>,
      <<"N", "/", "A">>,
      <<"n", "/", "a">>,
      <<"n", "a", "n">>,
      <<"N", "o", "n", "e">>,
      <<"n", "o", "n", "e", " ">>,
      <<"a", "@", "a", ".", "a">>,
      <<"A", "@", "a", ".", "a">>,
      <<" ", "a", "@", "a", ".", "a", " ">>,
      <<"b", "@", "a", ".", "a">>,
      <<"B", "@", "a", ".", "a">>,
      <<"b">>,
      <<"@">> }

\* draw_text_with_underline_wrapped is not running
WrapperIdle ==
    /\ text = <<>>
    /\ max_width = GetMaxWidth
    /\ line_height = PDF_LINE_HEIGHT
    /\ y = 0
    /\ glyph_w = PdfFont
    /\ pc = "idle"
    /\ tokens = <<>>
    /\ i = 1
    /\ line_buf = <<>>
    /\ line_width = 0
    /\ cur_y = 0
    /\ drawn = <<>>

\* lines 1096-1097 and 1157-1158: the card of one student of mode B
InitMail ==
    /\ WrapperIdle
    /\ PdfIdle
    /\ AnswerIdle
    /\ to_email \in ToEmails
    /\ cc_email \in CcEmails
    /\ has_secrets \in BOOLEAN
    /\ mpc = "idle"
    /\ recipient = <<>>
    /\ msg_cc = NoCc
    /\ sg_calls = 0
    /\ result = Returns(FALSE, "none")
    /\ sent_status = FALSE
    /\ presses = 0
    /\ AppIdle

mailFrame == <<wrapVars, pdfVars, listVars, ansVars, appVars>>

NextMail ==
    \/ PressSend /\ UNCHANGED mailFrame
    \/ LoadConfig /\ UNCHANGED mailFrame
    \/ ValidateRecipient /\ UNCHANGED mailFrame
    \/ BuildMessage /\ UNCHANGED mailFrame
    \/ SendMessage /\ UNCHANGED mailFrame
    \/ HandleResult /\ UNCHANGED mailFrame

SpecMail == InitMail /\ [][NextMail]_vars

----------------------------------------------------------------------------
(* The review pipeline: dicts, keys and the Review sheet *)

\* A Python dict keeps insertion order: a sequence of [key, val] entries.
DictHas(d, k) == \E n \in 1..Len(d) : d[n].key = k
DictGet(d, k) == d[CHOOSE n \in 1..Len(d) : d[n].key = k].val
DictSet(d, k, v) ==
    IF DictHas(d, k)
    THEN [n \in 1..Len(d) |-> IF d[n].key = k THEN [d[n] EXCEPT !.val = v]
                              ELSE d[n]]
    ELSE Append(d, [key |-> k, val |-> v])
DictDel(d, k) == SelectSeq(d, LAMBDA e : e.key # k)

SEP == <<"|", "|">>

\* the first character of an AI candidate sentence
AI_MARK == "*"

\* the value written by mark_review_rows_done
DONE == << "done" >>

\* f"{school}||{level}"
BatchKeyOf(school, level) == school \o SEP \o level

\* s.split("||")
RECURSIVE SplitFrom(_, _)
SplitFrom(s, k) ==
    LET e == Find(s, SEP, k)
    IN  IF e = 0 THEN << SubSeq(s, k, Len(s)) >>
        ELSE << SubSeq(s, k, e - 1) >> \o SplitFrom(s, e + Len(SEP))

Split(s) == SplitFrom(s, 1)

\* str(idx) and int(...) for the row numbers of the sheet
Digits == <<"0", "1", "2", "3", "4", "5", "6", "7", "8", "9">>
IntStr(n) == << Digits[n + 1] >>
IsIntStr(v) == Len(v) = 1 /\ \E n \in 1..Len(Digits) : Digits[n] = v[1]
StrInt(v) == (CHOOSE n \in 1..Len(Digits) : Digits[n] = v[1]) - 1

\* sentence.lstrip(AI_MARK)
RECURSIVE LStripMark(_)
LStripMark(v) ==
    IF v # <<>> /\ Head(v) = AI_MARK THEN LStripMark(Tail(v)) ELSE v

\* x or ''
OrEmpty(v) == IF Truthy(v) THEN v ELSE <<>>

NewWord ==
    [original |-> NONE, ai |-> <<>>, needs_review |-> FALSE,
     row_keys |-> <<>>]

\* lines 151-152 without the test
SkipsRow_Never(school, level, word, sentence) == FALSE

\* lines 151-152: a row with an empty field is left out
SkipsRow(school, level, word, sentence) ==
    school = <<>> \/ level = <<>> \/ word = <<>> \/ sentence = <<>>

\* build_review_groups after the first n rows of df (lines 146-176)
RECURSIVE GroupsAfter(_, _)
GroupsAfter(df, n) ==
    IF n = 0 THEN <<>>
    ELSE
      LET groups   == GroupsAfter(df, n - 1)
          r        == df[n]
          school   == Strip(Str(r.school))
          level    == Strip(Str(r.level))
          word     == Strip(Str(r.word))
          sentence == Strip(Str(r.sentence))
      IN  IF SkipsRow(school, level, word, sentence)
          THEN groups
          ELSE
            LET batch_key == BatchKeyOf(school, level)
                word_dict == IF DictHas(groups, batch_key)
                             THEN DictGet(groups, batch_key) ELSE <<>>
                entry     == IF DictHas(word_dict, word)
                             THEN DictGet(word_dict, word) ELSE NewWord
                is_ai     == StartsWith(sentence, << AI_MARK >>)
                clean     == Strip(LStripMark(sentence))
                row_key   == batch_key \o SEP \o word \o SEP \o IntStr(n - 1)
                filled    ==
                    IF is_ai
                    THEN [entry EXCEPT !.ai = Append(@, clean),
                                       !.needs_review = TRUE,
                                       !.row_keys = Append(@, row_key)]
                    ELSE [entry EXCEPT !.original = clean,
                                       !.row_keys = Append(@, row_key)]
            IN  DictSet(groups, batch_key, DictSet(word_dict, word, filled))

\* build_review_groups(review_df), lines 127-178
BuildReviewGroups(df) == GroupsAfter(df, Len(df))

\* next((v for k, v in ai_choices.items() if k.startswith(prefix)), default)
FirstChoice(choices, prefix, default) ==
    LET hits == {n \in 1..Len(choices) : StartsWith(choices[n].key, prefix)}
    IN  IF hits = {} THEN default ELSE choices[Min(hits)].val

WordPrefix(batch_key, word) == batch_key \o SEP \o word \o SEP

\* pending_words of compute_batch_readiness, lines 181-210
RECURSIVE PendingWords(_, _, _)
PendingWords(batch_key, word_dict, choices) ==
    IF word_dict = <<>> THEN <<>>
    ELSE
      LET word == Head(word_dict).key
          data == Head(word_dict).val
          rest == PendingWords(batch_key, Tail(word_dict), choices)
      IN  IF /\ data.needs_review
             /\ ~Truthy(FirstChoice(choices, WordPrefix(batch_key, word),
                                     NONE))
          THEN << word >> \o rest
          ELSE rest

IsReady(batch_key, word_dict, choices) ==
    PendingWords(batch_key, word_dict, choices) = <<>>

\* the content build_final_pool_for_batch gives one word, lines 222-229
ContentOf(batch_key, word, data, choices) ==
    IF data.needs_review
    THEN FirstChoice(choices, WordPrefix(batch_key, word),
                     OrEmpty(data.original))
    ELSE OrEmpty(data.original)

\* line 231: if content
KeepsQuestion(c) == c # <<>>

\* build_final_pool_for_batch, lines 213-239
RECURSIVE QuestionsOf(_, _, _, _)
QuestionsOf(batch_key, word_dict, choices, n) ==
    IF n = 0 THEN <<>>
    ELSE
      LET before == QuestionsOf(batch_key, word_dict, choices, n - 1)
          word   == word_dict[n].key
          c      == ContentOf(batch_key, word, word_dict[n].val, choices)
          parts  == Split(batch_key)
      IN  IF KeepsQuestion(c)
          THEN Append(before, [Word |-> word, Content |-> c,
                               School |-> parts[1], Level |-> parts[2]])
          ELSE before

BuildFinalPoolForBatch(batch_key, word_dict, choices) ==
    QuestionsOf(batch_key, word_dict, choices, Len(word_dict))

\* {k: v for k, v in d.items() if k.endswith(f"||{selected_level}")}
OfLevel(d, level) ==
    SelectSeq(d, LAMBDA e : EndsWith(e.key, SEP \o level))

----------------------------------------------------------------------------
(* One run of the script on the review page (mode C) *)

\* what a run works on
Session(choices, pool, confirmed) ==
    [choices |-> choices, pool |-> pool, confirmed |-> confirmed,
     marked |-> <<>>, rr |-> FALSE]

\* lines 816-823: batches without any AI word are confirmed by themselves
RECURSIVE AutoConfirm(_, _)
AutoConfirm(level_groups, st) ==
    IF level_groups = <<>> THEN st
    ELSE
      LET batch_key == Head(level_groups).key
          word_dict == Head(level_groups).val
          has_any_ai == \E n \in 1..Len(word_dict) :
                           word_dict[n].val.needs_review
          after ==
            IF batch_key \notin st.confirmed /\ ~has_any_ai
            THEN [st EXCEPT
                    !.pool = DictSet(@, batch_key,
                               BuildFinalPoolForBatch(batch_key, word_dict,
                                                      st.choices)),
                    !.confirmed = @ \cup {batch_key}]
            ELSE st
      IN  AutoConfirm(Tail(level_groups), after)

\* lines 879-886: the sentences offered for one word
Options(data) ==
    (IF Truthy(data.original) THEN << data.original >> ELSE <<>>) \o data.ai

\* lines 869-915: every AI word of the batch gets the sentence its radio
\* shows stored under its choice key
RECURSIVE RadioWrites(_, _, _, _)
RadioWrites(batch_key, word_dict, choices, sel) ==
    IF word_dict = <<>> THEN choices
    ELSE
      LET word == Head(word_dict).key
          data == Head(word_dict).val
          choice_key  == WordPrefix(batch_key, word)
                         \o (IF data.row_keys # <<>> THEN data.row_keys[1]
                             ELSE word)
          chosen_text == Options(data)[sel[<<batch_key, word>>]]
          written == IF data.needs_review
                     THEN DictSet(choices, choice_key, chosen_text)
                     ELSE choices
      IN  RadioWrites(batch_key, Tail(word_dict), written, sel)

\* lines 849-851
ResetChoices(choices, batch_key) ==
    SelectSeq(choices, LAMBDA e : ~StartsWith(e.key, batch_key))

\* lines 846-852 without line 848
ResetBatch_KeepsPool(st, batch_key) ==
    [st EXCEPT !.confirmed = @ \ {batch_key},
               !.choices = ResetChoices(@, batch_key),
               !.rr = TRUE]

\* lines 846-852: the reset button of a confirmed batch
ResetBatch(st, batch_key) ==
    [st EXCEPT !.confirmed = @ \ {batch_key},
               !.pool = DictDel(@, batch_key),
               !.choices = ResetChoices(@, batch_key),
               !.rr = TRUE]

\* lines 935-937
AllRowKeys(word_dict) ==
    Concat([n \in 1..Len(word_dict) |-> word_dict[n].val.row_keys])

\* lines 929-944 without line 931
ConfirmBatch_PoolOnly(st, batch_key, word_dict) ==
    [st EXCEPT
       !.pool = DictSet(@, batch_key,
                        BuildFinalPoolForBatch(batch_key, word_dict,
                                               st.choices)),
       !.marked = AllRowKeys(word_dict),
       !.rr = TRUE]

\* lines 923-943: the confirm button of a ready batch
ConfirmBatch(st, batch_key, word_dict) ==
    [st EXCEPT
       !.pool = DictSet(@, batch_key,
                        BuildFinalPoolForBatch(batch_key, word_dict,
                                               st.choices)),
       !.confirmed = @ \cup {batch_key},
       !.marked = AllRowKeys(word_dict),
       !.rr = TRUE]

NoButton == [kind |-> "none", batch |-> <<>>]

\* lines 825-945: the batches of the level in order, up to the one whose
\* button was pressed
RECURSIVE ReviewBatches(_, _, _, _)
ReviewBatches(level_groups, st, sel, pressed) ==
    IF level_groups = <<>> THEN st
    ELSE
      LET batch_key == Head(level_groups).key
          word_dict == Head(level_groups).val
      IN  IF batch_key \in st.confirmed
          THEN IF pressed = [kind |-> "reset", batch |-> batch_key]
               THEN ResetBatch(st, batch_key)
               ELSE ReviewBatches(Tail(level_groups), st, sel, pressed)
          ELSE
            LET chosen == [st EXCEPT !.choices =
                              RadioWrites(batch_key, word_dict, @, sel)]
            IN  IF /\ IsReady(batch_key, word_dict, chosen.choices)
                   /\ pressed = [kind |-> "confirm", batch |-> batch_key]
                THEN ConfirmBatch(chosen, batch_key, word_dict)
                ELSE ReviewBatches(Tail(level_groups), chosen, sel, pressed)

\* lines 802-945 for the selected level
ReviewScript(level_groups, sel, pressed) ==
    LET st == Session(ai_choices, final_pool, confirmed_batches)
    IN  IF level_groups = <<>> THEN st
        ELSE ReviewBatches(level_groups, AutoConfirm(level_groups, st),
                           sel, pressed)

\* lines 311-314: the levels the sidebar offers
AllLevels(df) ==
    LET found == { Strip(Str(df[n].level)) : n \in 1..Len(df) }
    IN  IF found = {} THEN { <<"P", "1">> } ELSE found

\* the groups a run of the level works on, lines 799-802
LevelGroups(level) == OfLevel(BuildReviewGroups(review_df), level)

\* the radios a run of the level shows, and the positions they can be in
Slots(level_groups) ==
    UNION { { <<level_groups[b].key, level_groups[b].val[n].key>> :
                n \in { m \in 1..Len(level_groups[b].val) :
                           level_groups[b].val[m].val.needs_review } } :
            b \in 1..Len(level_groups) }

Selections(level_groups) ==
    { sel \in [Slots(level_groups) -> 1..MaxRows] :
        \A slot \in Slots(level_groups) :
          sel[slot] <= Len(Options(DictGet(DictGet(level_groups, slot[1]),
                                           slot[2]))) }

\* the buttons a user can press on the review page
Buttons(level_groups) ==
    { [kind |-> k, batch |-> level_groups[n].key] :
        k \in {"reset", "confirm"}, n \in 1..Len(level_groups) }

\* mark_review_rows_done(row_keys), lines 242-277: the status cell of the
\* row each key names
RowOfKey(rk) ==
    LET parts == Split(rk)
        last  == parts[Len(parts)]
    IN  IF IsIntStr(last) THEN StrInt(last) + 1 ELSE 0

RowsNamed(row_keys) == { RowOfKey(row_keys[n]) : n \in 1..Len(row_keys) }

\* lines 261-273 when the worksheet could be opened (when it could not,
\* lines 275-277, nothing is written)
MarkDone(rows, written) ==
    [n \in 1..Len(rows) |->
        IF n \in written THEN [rows[n] EXCEPT !.status = DONE] ELSE rows[n]]

\* the effects of one run of the review page
ReviewEffects(level, level_groups, sel, pressed) ==
    LET out == ReviewScript(level_groups, sel, pressed)
    IN  /\ (pressed # NoButton) => out.rr
        /\ ai_choices' = out.choices
        /\ final_pool' = out.pool
        /\ confirmed_batches' = out.confirmed
        /\ \E opened \in BOOLEAN :
              sheet' = IF opened THEN MarkDone(sheet, RowsNamed(out.marked))
                       ELSE sheet
        /\ rerun' = IF out.rr THEN level ELSE <<>>
        /\ rendered' = <<>>
        /\ UNCHANGED <<review_df, shuffled_cache>>

\* the user opens the review page of a level, moves radios and may press
\* one button
ReviewRun ==
    /\ rerun = <<>>
    /\ \E level \in AllLevels(review_df) :
         LET level_groups == LevelGroups(level)
         IN  \E pressed \in Buttons(level_groups) \cup {NoButton} :
               \E sel \in Selections(level_groups) :
                 ReviewEffects(level, level_groups, sel, pressed)

\* st.rerun() of lines 852 and 944: the page runs again, no button pressed
ReviewRerun ==
    /\ rerun # <<>>
    /\ LET level_groups == LevelGroups(rerun)
       IN  \E sel \in Selections(level_groups) :
             ReviewEffects(rerun, level_groups, sel, NoButton)

\* lines 291-305: the refresh button of the sidebar
Refresh ==
    /\ rerun = <<>>
    /\ review_df' = sheet
    /\ final_pool' = <<>>
    /\ ai_choices' = <<>>
    /\ confirmed_batches' = {}
    /\ shuffled_cache' = <<>>
    /\ rendered' = <<>>
    /\ UNCHANGED <<sheet, rerun>>

\* line 91: the cached Review data is older than its ttl and is read anew
CacheExpires ==
    /\ rerun = <<>>
    /\ review_df # sheet
    /\ review_df' = sheet
    /\ rendered' = <<>>
    /\ UNCHANGED <<sheet, final_pool, ai_choices, confirmed_batches,
                   shuffled_cache, rerun>>

----------------------------------------------------------------------------
(* The download page (mode A) and the send page (mode B) *)

\* shuffled_cache is only looked up by key, never iterated: it is kept as a
\* function from cache keys to question lists.
Perms(q) ==
    { [n \in 1..Len(q) |-> q[p[n]]] :
        p \in { f \in [1..Len(q) -> 1..Len(q)] :
                  \A a, b \in 1..Len(q) : f[a] = f[b] => a = b } }

\* what the three documents of one rendering are made from
Rendering(mode, batch_key, shuffled, original) ==
    << [mode |-> mode, batch |-> batch_key, questions |-> shuffled,
        original |-> original] >>

\* get_shuffled_questions(questions, cache_key), lines 527-534, followed by
\* create_pdf, create_answer_pdf and create_docx of the result
RenderShuffled(mode, batch_key, original_questions, cache_key) ==
    IF cache_key \in DOMAIN shuffled_cache
    THEN /\ rendered' = Rendering(mode, batch_key,
                                  shuffled_cache[cache_key],
                                  original_questions)
         /\ UNCHANGED shuffled_cache
    ELSE \E questions_list \in Perms(original_questions) :
           /\ Cardinality(DOMAIN shuffled_cache) < MaxCache
           /\ shuffled_cache' =
                  [k \in DOMAIN shuffled_cache \cup {cache_key} |->
                      IF k = cache_key THEN questions_list
                      ELSE shuffled_cache[k]]
           /\ rendered' = Rendering(mode, batch_key, questions_list,
                                    original_questions)

\* the page stops before it renders anything
Stops ==
    /\ rendered' = <<>>
    /\ UNCHANGED shuffled_cache

\* lines 965-993
RunSchoolDownload ==
    /\ rerun = <<>>
    /\ \E selected_level \in AllLevels(review_df) :
         LET level_pool == OfLevel(final_pool, selected_level)
         IN  IF level_pool = <<>> THEN Stops
             ELSE \E n \in 1..Len(level_pool) :
                    LET selected_school == Split(level_pool[n].key)[1]
                        batch_key == BatchKeyOf(selected_school,
                                                selected_level)
                        original_questions ==
                            IF DictHas(level_pool, batch_key)
                            THEN DictGet(level_pool, batch_key) ELSE <<>>
                        cache_key == << "school_" >> \o selected_school
                                     \o << "_" >> \o selected_level
                    IN  IF original_questions = <<>> THEN Stops
                        ELSE RenderShuffled("school", batch_key,
                                            original_questions, cache_key)
    /\ UNCHANGED <<sheet, review_df, final_pool, ai_choices,
                   confirmed_batches, rerun>>

\* the active rows of the student sheet (status Y), lines 1058-1061
Students ==
    << [id |-> <<"s", "1">>, school |-> <<"A">>, level |-> <<"P", "1">>],
       [id |-> <<"s", "2">>, school |-> <<"B">>, level |-> <<"P", "1">>] >>

\* group.drop_duplicates(subset=['Content']), line 1160
RECURSIVE DropDuplicates(_)
DropDuplicates(q) ==
    IF q = <<>> THEN <<>>
    ELSE LET before == DropDuplicates(SubSeq(q, 1, Len(q) - 1))
             last   == q[Len(q)]
         IN  IF \E n \in 1..Len(before) : before[n].Content = last.Content
             THEN before ELSE Append(before, last)

\* lines 1040-1180
RunStudentSend ==
    /\ rerun = <<>>
    /\ \E selected_level \in AllLevels(review_df) :
         LET level_pool_b  == OfLevel(final_pool, selected_level)
             all_pool_rows == Concat([n \in 1..Len(level_pool_b) |->
                                         level_pool_b[n].val])
             active_students ==
                 SelectSeq(Students, LAMBDA u : u.level = selected_level)
             Group(u) ==
                 SelectSeq(all_pool_rows,
                           LAMBDA q : q.School = u.school /\ q.Level = u.level)
             merged == SelectSeq(active_students, LAMBDA u : Group(u) # <<>>)
         IN  IF level_pool_b = <<>> \/ active_students = <<>> \/ merged = <<>>
             THEN Stops
             ELSE \E n \in 1..Len(merged) :
                    LET u == merged[n]
                        original_questions == DropDuplicates(Group(u))
                        cache_key == << "student_" >> \o u.id \o << "_" >>
                                     \o u.level
                    IN  RenderShuffled("student",
                                       BatchKeyOf(u.school, u.level),
                                       original_questions, cache_key)
    /\ UNCHANGED <<sheet, review_df, final_pool, ai_choices,
                   confirmed_batches, rerun>>

----------------------------------------------------------------------------
(* The Review sheet and the session *)

SENT    == << "Sent" >>

ReviewRow(school, level, word, sentence, status) ==
    [school |-> school, level |-> level, word |-> word,
     sentence |-> sentence, status |-> status]

\* rows a Review sheet can hold
RowChoices ==
    { ReviewRow(<<"A">>, <<"P", "1">>, <<"w">>, <<"o">>, <<"Ready">>),
      ReviewRow(<<"A">>, <<"P", "1">>, <<"w">>, <<AI_MARK, "x">>, <<"Pending">>),
      ReviewRow(<<"A">>, <<"P", "1">>, <<"v">>, <<AI_MARK>>, <<"Pending">>),
      ReviewRow(<<"A">>, <<"P", "1">>, <<"v">>, <<"o">>, SENT),
      ReviewRow(<<"A">>, <<"P", "1", "0">>, <<"w">>, <<AI_MARK, "y">>, <<"Pending">>),
      ReviewRow(<<"A">>, <<"P", "1">>, <<>>, <<"o">>, <<"Ready">>) }

Sheets == UNION { [1..n -> RowChoices] : n \in 0..MaxRows }

\* lines 27-40 and the first load_review()
InitApp ==
    /\ WrapperIdle
    /\ PdfIdle
    /\ AnswerIdle
    /\ MailIdle
    /\ sheet \in Sheets
    /\ review_df = sheet
    /\ final_pool = <<>>
    /\ ai_choices = <<>>
    /\ confirmed_batches = {}
    /\ shuffled_cache = <<>>
    /\ rendered = <<>>
    /\ rerun = <<>>

appFrame == <<wrapVars, pdfVars, listVars, ansVars, mailVars>>

NextApp ==
    \/ ReviewRun /\ UNCHANGED appFrame
    \/ ReviewRerun /\ UNCHANGED appFrame
    \/ Refresh /\ UNCHANGED appFrame
    \/ CacheExpires /\ UNCHANGED appFrame
    \/ RunSchoolDownload /\ UNCHANGED appFrame
    \/ RunStudentSend /\ UNCHANGED appFrame

SpecApp == InitApp /\ [][NextApp]_vars

----------------------------------------------------------------------------
(* Vocabulary of the claims *)

RECURSIVE SumWidths(_, _)
SumWidths(toks, gw) ==
    IF toks = <<>> THEN 0
    ELSE Measure(Head(toks), gw) + SumWidths(Tail(toks), gw)

\* the tokens of all flushed lines, in line order
DrawnTokens == Concat([k \in 1..Len(drawn) |-> drawn[k].toks])

\* the characters handed to drawString, in drawing order
DrawnString == Concat([k \in 1..Len(DrawnTokens) |-> DrawnText(DrawnTokens[k])])

\* Reading of a paragraph by the markup rule of the specification: an
\* opening tag pairs with the nearest closing tag after it, the pair and
\* what it encloses form one span, and scanning resumes after the span.
RECURSIVE SpanTokensFrom(_, _)
SpanTokensFrom(s, k) ==
    LET o == Find(s, OPEN, k)
        c == IF o = 0 THEN 0 ELSE Find(s, CLOSE, o + Len(OPEN))
    IN  IF o = 0 \/ c = 0 THEN CharTokens(SubSeq(s, k, Len(s)))
        ELSE CharTokens(SubSeq(s, k, o - 1))
             \o << SubSeq(s, o, c + Len(CLOSE) - 1) >>
             \o SpanTokensFrom(s, c + Len(CLOSE))

SpanTokens(s) == SpanTokensFrom(s, 1)

IsRun(tok) == Len(tok) > 1

\* the text outside the spans
OutsideText(s) ==
    Concat(SelectSeq(SpanTokens(s), LAMBDA t : ~IsRun(t)))

\* every tag marker of s belongs to a span
WellTagged(s) ==
    Find(OutsideText(s), OPEN, 1) = 0 /\ Find(OutsideText(s), CLOSE, 1) = 0

\* the visible text of s: the markers of its spans removed
VisibleText(s) ==
    LET st == SpanTokens(s)
    IN  Concat([k \in 1..Len(st) |->
                  IF IsRun(st[k]) THEN Inner(st[k]) ELSE st[k]])

\* positions of s that belong to a span
RECURSIVE SpanPositionsFrom(_, _)
SpanPositionsFrom(s, k) ==
    LET o == Find(s, OPEN, k)
        c == IF o = 0 THEN 0 ELSE Find(s, CLOSE, o + Len(OPEN))
    IN  IF o = 0 \/ c = 0 THEN {}
        ELSE (o..(c + Len(CLOSE) - 1)) \cup SpanPositionsFrom(s, c + Len(CLOSE))

\* positions of the characters of the markers that belong to no span
UnmatchedMarkerPositions(s) ==
    { p \in 1..Len(s) :
        /\ p \notin SpanPositionsFrom(s, 1)
        /\ \E q \in 1..Len(s) :
             /\ \/ IsAt(s, OPEN, q) /\ p \in q..(q + Len(OPEN) - 1)
                \/ IsAt(s, CLOSE, q) /\ p \in q..(q + Len(CLOSE) - 1)
             /\ q \notin SpanPositionsFrom(s, 1) }

\* position in the text of the first character of token j
TokenStart(toks, j) == 1 + Len(Concat(SubSeq(toks, 1, j - 1)))

\* the token that carries position p of the text
TokenCovering(toks, p) ==
    CHOOSE j \in 1..Len(toks) :
        TokenStart(toks, j) <= p /\ p < TokenStart(toks, j) + Len(toks[j])

Tokenized == pc # "tokenize"
Returned  == pc = "done"

IsPlainText(s) == \A k \in 1..Len(s) : s[k] \in PlainChars

----------------------------------------------------------------------------
(* Claims *)

\* C1 -- width invariant: every line flushed by the wrapping loop has a
\* summed token width of at most max_width, or holds exactly one token.
C1_WidthInvariant ==
    \A k \in 1..Len(drawn) :
        \/ SumWidths(drawn[k].toks, glyph_w) <= max_width
        \/ Len(drawn[k].toks) = 1

\* C1 witness: a finished paragraph with a full multi-token line and a
\* line that holds a single token wider than max_width.
C1_Witness ==
    /\ Returned
    /\ \E k \in 1..Len(drawn) :
         Len(drawn[k].toks) >= 2 /\ SumWidths(drawn[k].toks, glyph_w) = max_width
    /\ \E k \in 1..Len(drawn) :
         Len(drawn[k].toks) = 1 /\ SumWidths(drawn[k].toks, glyph_w) > max_width

\* C2 -- coverage invariant: the text drawn over all lines, in line order,
\* is the input text with the markers of its spans removed and their inner
\* text kept, and every token is drawn exactly once, in order.
C2_Coverage ==
    Returned => /\ DrawnTokens = tokens
                /\ DrawnString = VisibleText(text)

\* C3 -- tokenizer shape: for a paragraph whose tag markers all belong to
\* non-overlapping spans, the tokens are, in input order, one
\* single-character token per character outside the spans and one token per
\* span holding the span verbatim; the lines are made of whole tokens.
C3_TokenizerShape ==
    (Tokenized /\ WellTagged(text)) =>
        /\ tokens = SpanTokens(text)
        /\ (Returned => DrawnTokens = tokens)

\* C4 -- tokenizer robustness: for every input string the tokenizer yields a
\* token list, and every character of a tag marker that belongs to no span
\* is carried by a single-character token.
C4_UnmatchedMarkersPlain ==
    Tokenized =>
        /\ Concat(tokens) = text
        /\ \A p \in UnmatchedMarkerPositions(text) :
               Len(tokens[TokenCovering(tokens, p)]) = 1

\* C5 -- empty spans are dropped: the token list handed to the line wrapper
\* holds no run token with an empty inner text.
C5_NoEmptyRun ==
    Tokenized => \A k \in 1..Len(tokens) : tokens[k] # OPEN \o CLOSE

\* C6 -- the wrapper terminates, never flushes an empty line, and a token
\* wider than max_width is alone on its line.
C6_NoEmptyLine == \A k \in 1..Len(drawn) : drawn[k].toks # <<>>

C6_WideTokenAlone ==
    \A k \in 1..Len(drawn) :
        (\E j \in 1..Len(drawn[k].toks) :
            Measure(drawn[k].toks[j], glyph_w) > max_width)
        => Len(drawn[k].toks) = 1

\* statements still to run: the tokens not yet placed, the flush and the
\* spacing; no statement of the function runs for ever
C6_Rank ==
    CASE pc = "tokenize" -> Len(text) + 3
      [] pc = "loop"     -> (Len(tokens) - i + 1) + 2
      [] pc = "spacing"  -> 1
      [] OTHER           -> 0

\* until the function has returned, its next statement can run (the
\* tokenizer is total, so its step needs no more than its position)
C6_CanStep ==
    \/ Returned
    \/ pc = "tokenize"
    \/ ENABLED (BreakLine \/ AppendToken \/ FlushLast \/ ParagraphSpacing)

C6_Progress == C6_NoEmptyLine /\ C6_WideTokenAlone /\ C6_Rank >= 0 /\ C6_CanStep

C6_Terminates == []C6_Progress /\ [][C6_Rank' < C6_Rank]_vars

\* C6 witness: a finished paragraph of several lines, one of them a single
\* token wider than max_width that is neither the first nor the last line.
C6_Witness ==
    /\ Returned
    /\ \E k \in 2..(Len(drawn) - 1) :
         /\ Len(drawn[k].toks) = 1
         /\ Measure(drawn[k].toks[1], glyph_w) > max_width

\* C7 -- cursor arithmetic: line k (0-based) is drawn at y - k*line_height,
\* and the returned y is y - n*line_height - 12 for n flushed lines, the
\* spacing of 12 being subtracted exactly once, also for n = 0.
C7_Cursor ==
    /\ \A k \in 1..Len(drawn) : drawn[k].y = y - (k - 1) * line_height
    /\ Returned => cur_y = y - Len(drawn) * line_height - 12

\* C7 witness: a call that returned after flushing at least two lines.
C7_Witness == Returned /\ Len(drawn) >= 2

\* C7, the case n = 0: the empty paragraph returns y - 12.
C7_EmptyParagraph == Returned /\ drawn = <<>> /\ cur_y = y - 12

\* total measured width of the paragraph is 3 times max_width
ThreeLinesWide ==
    /\ IsPlainText(text)
    /\ max_width > 0
    /\ StringWidth(text, glyph_w) = 3 * max_width

ThreeLinesDrawn ==
    /\ Len(drawn) = 3
    /\ cur_y = y - 3 * line_height - 12

\* C8 as stated -- a paragraph of plain characters of uniform width whose
\* total width is 3 times max_width is drawn as exactly 3 lines and returns
\* y - 3*line_height - 12, whatever the character width and max_width.
C8_AsStated == (Returned /\ ThreeLinesWide) => ThreeLinesDrawn

\* C8 amended -- the same, for a character width that divides max_width.
C8_ThreeLines ==
    (/\ Returned
     /\ ThreeLinesWide
     /\ max_width % glyph_w["a"] = 0) => ThreeLinesDrawn

\* C8 witness: three lines of three characters each.
C8_Witness ==
    /\ Returned
    /\ ThreeLinesWide
    /\ max_width = 3 * glyph_w["a"]
    /\ ThreeLinesDrawn

\* what the student sheet shows for one piece of a sentence
BlankOf(n) == Rep(" ", IF 2 * n > 4 THEN 2 * n ELSE 4)

StudentPiece(p) ==
    CASE p.kind = "plain" -> p.s
      [] p.kind = "noun"  -> OPEN \o p.s \o CLOSE
      [] p.kind = "blank" -> OPEN \o BlankOf(Len(p.s)) \o CLOSE

StudentText(r) == Concat([k \in 1..Len(r) |-> StudentPiece(r[k])])

BlankPieces(r) == SelectSeq(r, LAMBDA p : p.kind = "blank")

IsBlankRun(tok) ==
    /\ StartsWith(tok, OPEN)
    /\ EndsWith(tok, CLOSE)
    /\ Inner(tok) # <<>>
    /\ \A k \in 1..Len(Inner(tok)) : Inner(tok)[k] = " "

QuestionTaken == cpc \in {"fit", "number", "content"}

\* C9 -- cursor invariant of create_pdf: every question number and every
\* wrapped line of question content is drawn at a y that is not below the
\* bottom margin of 60.
C9_AboveBottomMargin ==
    /\ num_y >= BOTTOM_MARGIN
    /\ \A k \in 1..Len(drawn) : drawn[k].y >= BOTTOM_MARGIN

\* C10 -- blank-length rule: in the student text every bracketed target
\* word is replaced by one underlined run of max(2*len(word), 4) spaces,
\* which reaches the line wrapper as one token; the word itself is not in
\* the text.
C10_BlankLength ==
    /\ QuestionTaken => /\ content = StudentText(row)
                        /\ \A k \in 1..Len(content) : content[k] # "w"
    /\ (cpc = "content" /\ Tokenized) =>
           LET runs == SelectSeq(tokens, IsBlankRun)
               bl   == BlankPieces(row)
           IN  /\ Len(runs) = Len(bl)
               /\ \A k \in 1..Len(runs) :
                      Len(Inner(runs[k])) = Max2(2 * Len(bl[k].s), 4)

\* C10 witness: a drawn question with a one-character word (4 spaces) and a
\* three-character word (6 spaces).
C10_Witness ==
    /\ cpc = "content"
    /\ Returned
    /\ \E k \in 1..Len(row) : row[k].kind = "blank" /\ Len(row[k].s) = 1
    /\ \E k \in 1..Len(row) : row[k].kind = "blank" /\ Len(row[k].s) = 3
    /\ \E j \in 1..Len(DrawnTokens) : Len(DrawnText(DrawnTokens[j])) = 4
    /\ \E j \in 1..Len(DrawnTokens) : Len(DrawnText(DrawnTokens[j])) = 6

----------------------------------------------------------------------------
(* The word list page *)

\* the place of an entry: its page and its y
RowOf(e) == <<e.page, e.y>>

\* the rows that hold at least one entry
RowsUsed == { RowOf(entries[k]) : k \in 1..Len(entries) }

\* _draw_word_list_page has drawn its last entry
WordListDone == cpc \in {"save", "saved"} /\ unique_words # <<>>

\* C11 -- two-column word list: entry i (1-based) is drawn in column 1 when
\* i is odd and in column 2 when i is even, an even entry shares the row of
\* the entry before it and an odd entry after the first starts the next
\* row (30 lower, or at the top of a new page); so n entries occupy
\* ceil(n/2) rows, and every word of the list gets its entry.
C11_TwoColumns ==
    /\ \A k \in 1..Len(entries) :
          LET e == entries[k]
          IN  /\ e.n = k
              /\ e.x = IF k % 2 = 1 THEN X1 ELSE X2
              /\ (k % 2 = 0) => RowOf(e) = RowOf(entries[k - 1])
              /\ (k % 2 = 1 /\ k > 1) =>
                     LET p == entries[k - 1]
                     IN  \/ e.page = p.page /\ e.y = p.y - HEADER_STEP
                         \/ e.page = p.page + 1 /\ e.y = TopY - HEADER_STEP
    /\ Cardinality(RowsUsed) = (Len(entries) + 1) \div 2
    /\ WordListDone => Len(entries) = Len(unique_words)

\* C11 witness: a finished list of 7 entries in 4 rows, entry 7 alone in
\* column 1 of the fourth row.
C11_Witness ==
    /\ WordListDone
    /\ Len(entries) = 7
    /\ Cardinality(RowsUsed) = 4
    /\ entries[7].x = X1
    /\ \A k \in 1..6 : RowOf(entries[k]) # RowOf(entries[7])

\* C11, second witness: a list long enough to continue on a second page
C11_WitnessSecondPage ==
    /\ WordListDone
    /\ \E k \in 2..Len(entries) : entries[k].page = entries[k - 1].page + 1

----------------------------------------------------------------------------
(* The order of the document *)

\* the header part of the document so far
HeaderLog ==
    CASE cpc = "title" -> <<>>
      [] cpc = "date"  -> << Event("title", 0) >>
      [] OTHER         -> << Event("title", 0), Event("date", 0) >>

\* number and content of question k
QuestionLog(k) == << Event("number", k), Event("content", k) >>

\* the questions in list order; the one being handled has its number only
\* while its content is drawn, and nothing before its number is drawn
QuestionsLog ==
    CASE cpc \in {"fit", "number"} ->
             Concat([k \in 1..(idx - 1) |-> QuestionLog(k)])
      [] cpc = "content" ->
             Concat([k \in 1..(idx - 1) |-> QuestionLog(k)])
             \o << Event("number", idx) >>
      [] OTHER -> Concat([k \in 1..idx |-> QuestionLog(k)])

\* the page break of the word list, then its entries in order
WordListLog ==
    IF cpc \in {"words", "save", "saved"} /\ unique_words # <<>>
    THEN << Event("wordpage", 0) >> \o [k \in 1..wi |-> Event("word", k)]
    ELSE <<>>

SaveLog == IF cpc = "saved" THEN << Event("save", 0) >> ELSE <<>>

\* the wrapper draws lines only inside the content step of a question
WrapperIdleOutsideContent ==
    (cpc # "content") => (pc = "idle" /\ drawn = <<>>)

RenderOrder ==
    /\ log = HeaderLog \o QuestionsLog \o WordListLog \o SaveLog
    /\ [k \in 1..Len(entries) |-> entries[k].n] = [k \in 1..wi |-> k]
    /\ saves = IF cpc = "saved" THEN 1 ELSE 0
    /\ WrapperIdleOutsideContent

\* C12 -- render order of create_pdf: title, then date, then each question
\* in list order as number followed by its wrapped content, then the page
\* break of the word list followed by its entries, then one save as the
\* last step; nothing is drawn after the save and no question is drawn once
\* the word list has started.
C12_RenderOrder == []RenderOrder /\ [][cpc # "saved"]_vars

\* C12 witness: a saved document with two questions and three word entries
C12_Witness ==
    /\ cpc = "saved"
    /\ idx = 2
    /\ Len(entries) = 3
    /\ log[Len(log)] = Event("save", 0)

----------------------------------------------------------------------------
(* The empty question list *)

\* create_pdf has left the loop of line 566 without taking any question
EmptyQuestionList == idx = 0 /\ cpc \in {"collect", "words", "save", "saved"}

----------------------------------------------------------------------------
(* Tokenization of a token sequence *)

\* a token the code treats as an underlined run (lines 385, 396)
IsRunToken(tok) == StartsWith(tok, OPEN) /\ EndsWith(tok, CLOSE)

\* a token written back as text: a run is its inner text wrapped in the
\* tag again, a plain token is its character
Reserialize(tok) ==
    IF IsRunToken(tok) THEN OPEN \o Inner(tok) \o CLOSE ELSE tok

Serialized(toks) == Concat([k \in 1..Len(toks) |-> Reserialize(toks[k])])

\* C14 -- idempotence of tokenization: writing the token sequence of a
\* paragraph back as text (plain tokens concatenated, runs wrapped in
\* their tag again) and tokenizing that text yields the same token
\* sequence.
C14_TokenizeIdempotent ==
    Tokenized => Tokenize(Serialized(tokens)) = tokens

\* C14 witness: a tokenized paragraph with a run of one character next to
\* a plain character
C14_Witness ==
    /\ Tokenized
    /\ \E k \in 1..Len(tokens) :
         IsRunToken(tokens[k]) /\ Len(Inner(tokens[k])) = 1
    /\ \E k \in 1..Len(tokens) : tokens[k] = <<"a">>
    /\ Tokenize(Serialized(tokens)) = tokens

----------------------------------------------------------------------------
(* The two wrappers side by side *)

TokenWidths == [k \in 1..Len(tokens) |-> Measure(tokens[k], glyph_w)]

AnswerTokenWidths ==
    [k \in 1..Len(ans_tokens) |-> AnswerMeasure(ans_tokens[k], glyph_w)]

\* the lines of a call: how many tokens each holds and where it is drawn
LineShape(d) == [k \in 1..Len(d) |-> [n |-> Len(d[k].toks), y |-> d[k].y]]

BothReturned == pc = "done" /\ ans_pc = "done"

\* C15 -- the answer-key wrapper mirrors the question wrapper: when both
\* are given token sequences of the same widths, the same max_width, start
\* y and line_height, they break the tokens into the same lines at the
\* same y positions and return the same y.
C15_Mirror ==
    (BothReturned /\ TokenWidths = AnswerTokenWidths) =>
        /\ LineShape(drawn) = LineShape(ans_drawn)
        /\ cur_y = ans_cur_y

\* C15 witness: both have returned on token sequences of the same widths
\* that hold a marked run and fill more than one line
C15_Witness ==
    /\ BothReturned
    /\ TokenWidths = AnswerTokenWidths
    /\ \E k \in 1..Len(ans_tokens) : StartsWith(ans_tokens[k], RED_OPEN)
    /\ Len(ans_drawn) >= 2
    /\ LineShape(drawn) = LineShape(ans_drawn)

----------------------------------------------------------------------------
(* Sending to a parent *)

\* the address the function validates
TrimmedRecipient == Strip(Str(to_email))

\* the email pattern, read as a shape: one @ after a non-empty local part
\* of word characters, dots and hyphens; after it a domain of the same
\* characters whose last dot is followed by word characters only and
\* preceded by at least one character
HasEmailShape(r) ==
    LET ats == {k \in 1..Len(r) : r[k] = "@"}
    IN  /\ Cardinality(ats) = 1
        /\ LET at   == CHOOSE k \in ats : TRUE
               dots == {k \in (at + 1)..Len(r) : r[k] = "."}
           IN  /\ at > 1
               /\ \A j \in 1..(at - 1) : LocalChar(r[j])
               /\ dots # {}
               /\ LET last == CHOOSE k \in dots : \A d \in dots : d <= k
                  IN  /\ last > at + 1
                      /\ last < Len(r)
                      /\ \A j \in (at + 1)..(last - 1) : LocalChar(r[j])
                      /\ \A j \in (last + 1)..Len(r) : WordChar(r[j])

InvalidRecipient == ~HasEmailShape(TrimmedRecipient)

NeverDelivered == sg_calls = 0 /\ ~sent_status

\* C16 as stated -- an invalid recipient address is rejected before any
\* delivery attempt: the function returns (False, format-invalid message),
\* the provider is never called and the sent status is not set.
C16_AsStated ==
    InvalidRecipient =>
        /\ NeverDelivered
        /\ (mpc = "returned") => result = Returns(FALSE, "invalid format")

\* C16 -- an invalid recipient address is rejected before any delivery
\* attempt: the function returns False, with the format-invalid message
\* when the sendgrid configuration is present and with the text of the
\* configuration error when it is missing; the provider is never called
\* and the sent status is not set, however often the button is pressed.
C16_Rejected ==
    InvalidRecipient =>
        /\ NeverDelivered
        /\ (mpc = "returned") =>
               result = Returns(FALSE, IF has_secrets THEN "invalid format"
                                       ELSE "exception")

\* C16 witness: the address not-an-email was rejected at both presses
C16_Witness ==
    /\ to_email = <<"n", "o", "t", "-", "a", "n", "-", "e", "m", "a", "i", "l">>
    /\ InvalidRecipient
    /\ has_secrets
    /\ presses = 2
    /\ mpc = "returned"
    /\ result = Returns(FALSE, "invalid format")
    /\ NeverDelivered

\* a message was built by the current call
MessageBuilt ==
    /\ has_secrets
    /\ \/ mpc = "send"
       \/ mpc = "returned" /\ result.msg # "invalid format"

\* the CC value, trimmed and lower-cased; an absent value is empty
CcValue ==
    LowerStr(Strip(IF cc_email = NONE THEN <<>> ELSE Str(cc_email)))

CcWanted ==
    /\ CcValue \notin { <<>>, <<"n", "/", "a">>, <<"n", "a", "n">>, <<"n", "o", "n", "e">> }
    /\ \E k \in 1..Len(CcValue) : CcValue[k] = "@"
    /\ CcValue # LowerStr(TrimmedRecipient)

\* C17 -- CC rule: the message gets a CC (the trimmed, lower-cased value)
\* if and only if that value is none of "", "n/a", "nan", "none", contains
\* "@" and differs from the recipient compared without case; otherwise the
\* message has no CC, and in both cases it is handed to the provider.
C17_CcRule ==
    MessageBuilt =>
        /\ (msg_cc # NoCc) <=> CcWanted
        /\ CcWanted => msg_cc = CcValue
        /\ (mpc = "returned") => sg_calls >= 1

\* C17 witness: the value N/A was left out and the message was sent
C17_Witness ==
    /\ MessageBuilt
    /\ cc_email = <<"N", "/", "A">>
    /\ msg_cc = NoCc
    /\ mpc = "returned"
    /\ result = Returns(TRUE, "sent")

\* C17, second witness: an upper-case teacher address was added in lower
\* case
C17_WitnessAdded ==
    /\ MessageBuilt
    /\ cc_email = <<"B", "@", "a", ".", "a">>
    /\ msg_cc = <<"b", "@", "a", ".", "a">>
    /\ mpc = "returned"

----------------------------------------------------------------------------
(* The review pipeline and the final pool *)

\* the rows of the loaded Review data that build_review_groups puts into a
\* batch, and so offers for review
GroupedRows(df) ==
    LET groups == BuildReviewGroups(df)
    IN  UNION { UNION { RowsNamed(groups[b].val[n].val.row_keys) :
                         n \in 1..Len(groups[b].val) } :
                b \in 1..Len(groups) }

Closed(r) == r.status \in {SENT, DONE}

\* C18: a Review row whose status is "Sent", or that was already marked
\* done, is not among the rows build_review_groups puts into a batch.
C18_StatusFilter ==
    \A n \in 1..Len(review_df) :
        Closed(review_df[n]) => n \notin GroupedRows(review_df)

PoolQuestions == Concat([b \in 1..Len(final_pool) |-> final_pool[b].val])

WellFormed(batch_key, qs) ==
    \A n \in 1..Len(qs) :
        /\ qs[n].Content # <<>>
        /\ qs[n].Word # <<>>
        /\ BatchKeyOf(qs[n].School, qs[n].Level) = batch_key
        /\ \A m \in 1..Len(qs) : qs[m].Word = qs[n].Word => m = n

\* C19: every question stored in final_pool has a non-empty Content and a
\* non-empty Word and carries the School and the Level of its batch key, and
\* no word occurs twice in the list of a batch.
C19_QuestionInvariant ==
    \A b \in 1..Len(final_pool) :
        WellFormed(final_pool[b].key, final_pool[b].val)

\* a confirmed batch of two words, one of them with the sentence the
\* user chose among the AI candidates
C19_Witness ==
    /\ \E b \in 1..Len(final_pool) : Len(final_pool[b].val) = 2
    /\ \E n \in 1..Len(PoolQuestions) : PoolQuestions[n].Content = <<"x">>

\* C20: a worksheet is rendered on the download page or on the send page
\* only for a batch that is confirmed at that moment, and never while no
\* batch of the final pool is confirmed.
C20_ConfirmBeforePdf ==
    rendered # <<>> =>
        /\ rendered[1].batch \in confirmed_batches
        /\ DictHas(final_pool, rendered[1].batch)
        /\ rendered[1].original # <<>>

\* a worksheet rendered on the send page for a batch that was confirmed
\* with an AI sentence
C20_Witness ==
    /\ rendered # <<>>
    /\ rendered[1].mode = "student"
    /\ \E n \in 1..Len(rendered[1].original) :
          rendered[1].original[n].Content = <<"x">>

----------------------------------------------------------------------------
(* The page break before a question *)

\* the step between taking question idx and numbering it
BeforeNumber == cpc = "fit" /\ cpc' = "number"

\* the first line of the content is at the y of the number
FirstLineAtNumber ==
    (cpc = "content" /\ drawn # <<>>) => drawn[1].y = num_y

PageBreakRule ==
    /\ BeforeNumber =>
          /\ (page' = page + 1) <=> (pdf_y - PDF_LINE_HEIGHT < 60)
          /\ (page' = page + 1) => pdf_y' = PAGE_HEIGHT - 60
          /\ (page' = page) => pdf_y' = pdf_y
          /\ page' \in {page, page + 1}
    /\ (cpc = "number" /\ cpc' = "content") =>
          (num_y' = pdf_y /\ page' = page)
    /\ (cpc = "content" /\ cpc' = "content") => page' = page

\* C21 -- page break before a question: between taking question k and
\* drawing its number the page is broken if and only if
\* cur_y - PDF_LINE_HEIGHT < 60 there; the break sets cur_y to
\* page_height - 60, and the number and the first line of the content are
\* drawn at that same y on the same page.
C21_PageBreak == []FirstLineAtNumber /\ [][PageBreakRule]_vars

\* C21 witness: a question numbered at the top of a later page, its first
\* line drawn there
C21_Witness ==
    /\ cpc = "content"
    /\ page >= 1
    /\ idx >= 2
    /\ num_y = PAGE_HEIGHT - 60
    /\ drawn # <<>>
    /\ drawn[1].y = num_y

----------------------------------------------------------------------------
(* Confirmation, reset and the shuffle cache *)

PoolKeys == { final_pool[b].key : b \in 1..Len(final_pool) }

\* C22 -- confirmed set and pool stay in step: the batches in
\* confirmed_batches are exactly the keys of final_pool, and no key occurs
\* twice in the pool.
C22_ConfirmedIsPool ==
    /\ confirmed_batches = PoolKeys
    /\ Cardinality(PoolKeys) = Len(final_pool)

\* C22 witness: two batches locked, one of them by the confirm button with
\* a chosen AI sentence
C22_Witness ==
    /\ Cardinality(confirmed_batches) = 2
    /\ Len(final_pool) = 2
    /\ \E b \in 1..Len(final_pool) :
          \E n \in 1..Len(final_pool[b].val) :
            final_pool[b].val[n].Content = <<"y">>

\* the batch an ai_choices key was written for (lines 155, 911)
BelongsTo(choice_key, batch_key) ==
    LET parts == Split(choice_key)
    IN  Len(parts) >= 2 /\ BatchKeyOf(parts[1], parts[2]) = batch_key

\* the run in which the reset button of batch_key was pressed
ResetStep(batch_key) ==
    /\ rerun = <<>>
    /\ rerun' # <<>>
    /\ batch_key \in confirmed_batches
    /\ batch_key \notin confirmed_batches'

ResetFrame(batch_key) ==
    /\ ~DictHas(final_pool', batch_key)
    /\ \A n \in 1..Len(ai_choices') :
          ~BelongsTo(ai_choices'[n].key, batch_key)
    /\ \A n \in 1..Len(ai_choices) :
          ~BelongsTo(ai_choices[n].key, batch_key) =>
              DictHas(ai_choices', ai_choices[n].key)
    /\ \A other \in confirmed_batches \ {batch_key} :
          /\ other \in confirmed_batches'
          /\ DictHas(final_pool', other)
          /\ DictGet(final_pool', other) = DictGet(final_pool, other)

\* C23 -- frame of reset: the run that resets batch B takes B out of
\* confirmed_batches and final_pool and leaves no ai_choices entry of B;
\* every ai_choices entry of another batch is still there, and every other
\* confirmed batch keeps its confirmation and its pool entry, also when its
\* key begins with the key of B.
C23_ResetFrame ==
    [][\A batch_key \in confirmed_batches :
          ResetStep(batch_key) => ResetFrame(batch_key)]_vars

\* C24 -- no stale shuffle: the question list get_shuffled_questions
\* returns for a rendering is a permutation of the list it was asked to
\* shuffle, and on the download page that list is the current final_pool
\* entry of the batch.
C24_NoStaleShuffle ==
    rendered # <<>> =>
        /\ rendered[1].questions \in Perms(rendered[1].original)
        /\ (rendered[1].mode = "school") =>
               /\ DictHas(final_pool, rendered[1].batch)
               /\ rendered[1].original =
                      DictGet(final_pool, rendered[1].batch)

====
